---- MODULE Spec2Model ----
(***************************************************************************)
(* Model of source/Plugins/Process/Utility/ARMUtils.h: the ARM/Thumb       *)
(* shift-operand decoder, the shift applier and the two modified-immediate *)
(* expanders.                                                              *)
(*                                                                         *)
(* A uint32_t that the code manipulates bit by bit is a Word: the set of   *)
(* the positions (0..31) of its 1 bits.  0x80000000 is {31}, 0xFF000000 is *)
(* 24..31, 0 is {}.  Small unsigned integers (type codes, shift amounts,   *)
(* carry flags) are Ints.                                                  *)
(*                                                                         *)
(* What the code does outside its asserted domain depends on two things    *)
(* that are part of the state:                                             *)
(*   NDEBUG    - TRUE when assert() is compiled out (fixed by the build);  *)
(*   wideShift - what the C++ shifts of a 32-bit operand by a count        *)
(*               outside 0..31 (undefined behaviour) evaluate to in the    *)
(*               call in progress: "mask" (the count is taken modulo 32,   *)
(*               as the x86 shift instruction does) or "zero" (all bits    *)
(*               are shifted out, as on ARM or when the compiler folds a   *)
(*               constant count).  The outcome is decided anew for every   *)
(*               call, and separately for the shift that yields the        *)
(*               result (.shift) and the one inside Bit32 that yields the  *)
(*               carry (.bit): one program can return 0 from one           *)
(*               LSR_C(1, 32) and 1 from the next.  It is drawn before the *)
(*               call is made and is NoWide for a call that evaluates no   *)
(*               such shift.                                               *)
(***************************************************************************)
EXTENDS Integers, Sequences, FiniteSets, TLC

VARIABLES NDEBUG, wideShift, op, typeCode, imm5, shift_t, amount, value, carry_in, ret

vars == <<NDEBUG, wideShift, op, typeCode, imm5, shift_t, amount, value, carry_in, ret>>

\* ------------------------------------------------------------------ bounds

\* type codes handed to the decoders range over 0..MaxTypeCode
MaxTypeCode == 5

\* shift amounts handed directly to the shift routines range over 0..MaxAmount
MaxAmount == 33

\* ------------------------------------------------------------------ enum

SRType_LSL == 0

SRType_LSR == 1

SRType_ASR == 2

SRType_ROR == 3

SRType_RRX == 4

ARM_ShifterType == {SRType_LSL, SRType_LSR, SRType_ASR, SRType_ROR, SRType_RRX}

\* ------------------------------------------------------------------ words

\* 2^n for n in 0..30
RECURSIVE Pow2(_)
Pow2(n) == IF n = 0 THEN 1 ELSE 2 * Pow2(n - 1)

\* the Word of a non-negative integer below 2^31
W(n) == {b \in 0..30 : (n \div Pow2(b)) % 2 = 1}

\* the integer of a Word whose bit 31 is clear
RECURSIVE N(_)
N(w) == IF w = {} THEN 0
        ELSE LET b == CHOOSE x \in w : TRUE IN Pow2(b) + N(w \ {b})

\* uint32_t >> n and uint32_t << n for a count inside 0..31
Shr(w, n) == {b - n : b \in {x \in w : x >= n}}

Shl(w, n) == {b + n : b \in {x \in w : x + n <= 31}}

\* a shift count outside 0..31 is undefined behaviour
WideCount(n) == n < 0 \/ n > 31

\* the outcomes of such a shift
WideOutcomes == {"mask", "zero"}

\* the call evaluates no shift by a count outside 0..31
NoWide == [shift |-> "none", bit |-> "none"]

ShiftRight(w, n) ==
    IF ~WideCount(n) THEN Shr(w, n)
    ELSE IF wideShift.shift = "mask" THEN Shr(w, n % 32) ELSE {}

ShiftLeft(w, n) ==
    IF ~WideCount(n) THEN Shl(w, n)
    ELSE IF wideShift.shift = "mask" THEN Shl(w, n % 32) ELSE {}

\* InstructionUtils.h: Bit32(bits, bit) = (bits >> bit) & 1u
Bit32(w, b) ==
    LET shifted == IF ~WideCount(b) THEN Shr(w, b)
                   ELSE IF wideShift.bit = "mask" THEN Shr(w, b % 32) ELSE {}
    IN  IF 0 \in shifted THEN 1 ELSE 0

\* InstructionUtils.h: Bits32 asserts msbit < 32 && lsbit <= msbit
Bits32Pre(msbit, lsbit) == msbit < 32 /\ lsbit <= msbit

\* InstructionUtils.h: Bits32(bits, msbit, lsbit) =
\*   (bits >> lsbit) & ((1u << (msbit - lsbit + 1)) - 1)
Bits32(w, msbit, lsbit) ==
    LET k    == msbit - lsbit + 1
        mask == IF k \in 0..31 THEN 0..(k - 1)
                ELSE IF wideShift.shift = "mask" THEN 0..((k % 32) - 1) ELSE 0..31
    IN  ShiftRight(w, lsbit) \cap mask

\* InstructionUtils.h: Rotr32(bits, amt) = (bits >> amt) | (bits << ((32-amt)&31))
Rotr32(w, amt) == ShiftRight(w, amt) \cup ShiftLeft(w, (32 - amt) % 32)

\* llvm::SignExtend64<32>(value): a 64-bit value as a set of positions in 0..63
SignExtend64(w) == IF 31 \in w THEN w \cup (32..63) ELSE w

\* InstructionUtils.h: UnsignedBits(value, msbit, lsbit) =
\*   (value >> lsbit) & MaskUpToBit(msbit - lsbit), 64-bit arithmetic
UnsignedBits(x, msbit, lsbit) ==
    {b - lsbit : b \in {y \in x : y >= lsbit}} \cap (0..(msbit - lsbit))

\* the conversion of a 64-bit return value to uint32_t
Trunc32(x) == x \cap (0..31)

\* ------------------------------------------------------------------ results

\* What a call produced.  viol: an asserted precondition did not hold;
\* abort: the assertion was compiled in and stopped the program (then no
\* value is returned); ub: a C++ shift by a count outside 0..31 was evaluated;
\* calls: the per-kind routines Shift_C invoked, each with its amount.
NoRet ==
    [abort |-> FALSE, viol |-> FALSE, ub |-> FALSE, val |-> {}, n |-> 0,
     kind |-> -1, carry_out |-> 0, calls |-> <<>>]

Aborted == [NoRet EXCEPT !.abort = TRUE, !.viol = TRUE]

\* assert(cond) followed by the rest of the function, r
Guarded(cond, r) ==
    IF cond THEN r
    ELSE IF NDEBUG THEN [r EXCEPT !.viol = TRUE] ELSE Aborted

\* ------------------------------------------------------------------ decoders

\* DecodeImmShift without the imm5 = 0 -> 32 normalisation of LSR and ASR
DecodeImmShift_Raw(type, imm) ==
    CASE type = 1 -> [NoRet EXCEPT !.kind = SRType_LSR, !.n = imm]
      [] type = 2 -> [NoRet EXCEPT !.kind = SRType_ASR, !.n = imm]
      [] type = 3 -> IF imm = 0
                     THEN [NoRet EXCEPT !.kind = SRType_RRX, !.n = 1]
                     ELSE [NoRet EXCEPT !.kind = SRType_ROR, !.n = imm]
      [] type = 0 -> [NoRet EXCEPT !.kind = SRType_LSL, !.n = imm]
      [] OTHER    -> Guarded(FALSE, [NoRet EXCEPT !.kind = SRType_LSL, !.n = imm])

\* DecodeImmShift returning imm5 as the amount of RRX
DecodeImmShift_RRX0(type, imm) ==
    CASE type = 1 -> [NoRet EXCEPT !.kind = SRType_LSR, !.n = IF imm = 0 THEN 32 ELSE imm]
      [] type = 2 -> [NoRet EXCEPT !.kind = SRType_ASR, !.n = IF imm = 0 THEN 32 ELSE imm]
      [] type = 3 -> IF imm = 0
                     THEN [NoRet EXCEPT !.kind = SRType_RRX, !.n = imm]
                     ELSE [NoRet EXCEPT !.kind = SRType_ROR, !.n = imm]
      [] type = 0 -> [NoRet EXCEPT !.kind = SRType_LSL, !.n = imm]
      [] OTHER    -> Guarded(FALSE, [NoRet EXCEPT !.kind = SRType_LSL, !.n = imm])

\* DecodeImmShift(type, imm5, shift_t): kind is shift_t, n the returned amount.
\* The default label asserts and, when the assertion is compiled out, falls
\* through to case 0.
DecodeImmShift(type, imm) ==
    LET case0 == [NoRet EXCEPT !.kind = SRType_LSL, !.n = imm]
    IN  CASE type = 0 -> case0
          [] type = 1 -> [NoRet EXCEPT !.kind = SRType_LSR,
                                       !.n = IF imm = 0 THEN 32 ELSE imm]
          [] type = 2 -> [NoRet EXCEPT !.kind = SRType_ASR,
                                       !.n = IF imm = 0 THEN 32 ELSE imm]
          [] type = 3 -> IF imm = 0
                         THEN [NoRet EXCEPT !.kind = SRType_RRX, !.n = 1]
                         ELSE [NoRet EXCEPT !.kind = SRType_ROR, !.n = imm]
          [] OTHER    -> Guarded(FALSE, case0)

\* DecodeImmShift(shift_t, imm5): the enumerator is passed as the type code and
\* the decoded kind is dropped
DecodeImmShift2(st, imm) == [DecodeImmShift(st, imm) EXCEPT !.kind = -1]

DecodeRegShift(type) ==
    CASE type = 0 -> [NoRet EXCEPT !.kind = SRType_LSL]
      [] type = 1 -> [NoRet EXCEPT !.kind = SRType_LSR]
      [] type = 2 -> [NoRet EXCEPT !.kind = SRType_ASR]
      [] type = 3 -> [NoRet EXCEPT !.kind = SRType_ROR]
      [] OTHER    -> Guarded(FALSE, [NoRet EXCEPT !.kind = SRType_LSL])

\* ------------------------------------------------------------------ shifts

LSL_C(v, amt) ==
    Guarded(amt > 0 /\ amt < 32,
            [NoRet EXCEPT !.carry_out = Bit32(v, 32 - amt),
                          !.val = ShiftLeft(v, amt),
                          !.ub = WideCount(32 - amt) \/ WideCount(amt)])

LSR_C(v, amt) ==
    Guarded(amt > 0 /\ amt <= 32,
            [NoRet EXCEPT !.carry_out = Bit32(v, amt - 1),
                          !.val = ShiftRight(v, amt),
                          !.ub = WideCount(amt - 1) \/ WideCount(amt)])

ASR_C(v, amt) ==
    Guarded(amt > 0 /\ amt <= 32,
            [NoRet EXCEPT !.carry_out = Bit32(v, amt - 1),
                          !.val = Trunc32(UnsignedBits(SignExtend64(v), amt + 31, amt)),
                          !.ub = WideCount(amt - 1)])

ROR_C(v, amt) ==
    Guarded(amt > 0 /\ amt < 32,
            [NoRet EXCEPT !.carry_out = Bit32(v, 31),
                          !.val = Rotr32(v, amt),
                          !.ub = WideCount(amt)])

\* Bit32(carry_in, 0) << 31 | Bits32(value, 31, 1)
RRX_C(v, cin) ==
    [NoRet EXCEPT !.carry_out = Bit32(v, 0),
                  !.val = (IF cin % 2 = 1 THEN {31} ELSE {}) \cup Bits32(v, 31, 1)]

\* r, the result of a per-kind routine, as Shift_C returns it
Dispatched(type, amt, r) == [r EXCEPT !.calls = << <<type, amt>> >>]

\* Shift_C without the amount == 0 short-circuit
Shift_C_NoShortCircuit(v, type, amt, cin) ==
    Guarded(type # SRType_RRX \/ amt = 1,
            CASE type = SRType_LSL -> Dispatched(type, amt, LSL_C(v, amt))
              [] type = SRType_LSR -> Dispatched(type, amt, LSR_C(v, amt))
              [] type = SRType_ASR -> Dispatched(type, amt, ASR_C(v, amt))
              [] type = SRType_ROR -> Dispatched(type, amt, ROR_C(v, amt))
              [] type = SRType_RRX -> Dispatched(type, amt, RRX_C(v, amt)))

\* The RRX case hands amount, not carry_in, to RRX_C.
Shift_C(v, type, amt, cin) ==
    Guarded(type # SRType_RRX \/ amt = 1,
            IF amt = 0
            THEN [NoRet EXCEPT !.carry_out = cin, !.val = v]
            ELSE CASE type = SRType_LSL -> Dispatched(type, amt, LSL_C(v, amt))
                   [] type = SRType_LSR -> Dispatched(type, amt, LSR_C(v, amt))
                   [] type = SRType_ASR -> Dispatched(type, amt, ASR_C(v, amt))
                   [] type = SRType_ROR -> Dispatched(type, amt, ROR_C(v, amt))
                   [] type = SRType_RRX -> Dispatched(type, amt, RRX_C(v, amt)))

\* ------------------------------------------------------------------ immediates

bits(w, msbit, lsbit) == Bits32(w, msbit, lsbit)

bit(w, msbit) == bits(w, msbit, msbit)

\* ror without the bits that wrap around: val >> m
ror_NoWrap(w, NN, shift) == ShiftRight(w, shift % NN)

\* ror rotating to the left: (val << m) | (val >> (N - m))
ror_Left(w, NN, shift) ==
    LET m == shift % NN IN ShiftLeft(w, m) \cup ShiftRight(w, NN - m)

\* ror(val, N, shift): m = shift % N; (val >> m) | (val << (N - m))
ror(w, NN, shift) ==
    LET m == shift % NN IN ShiftRight(w, m) \cup ShiftLeft(w, NN - m)

\* the left shift of ror is by N when shift is a multiple of N
ror_wide(NN, shift) == WideCount(NN - (shift % NN))

ARMExpandImm_C(w, cin) ==
    LET imm == bits(w, 7, 0)
        amt == 2 * N(bits(w, 11, 8))
    IN  IF amt = 0
        THEN [NoRet EXCEPT !.val = imm, !.carry_out = cin]
        ELSE LET imm32 == ror(imm, 32, amt)
             IN  [NoRet EXCEPT !.val = imm32, !.carry_out = Bit32(imm32, 31),
                               !.n = amt, !.ub = ror_wide(32, amt)]

\* The selector of the no-rotation branch is read with bits(imm12, 8, 9).
ThumbExpandImm_C(w, cin) ==
    LET i        == bit(w, 26)
        imm3     == bits(w, 14, 12)
        abcdefgh == bits(w, 7, 0)
        imm12    == Shl(i, 11) \cup Shl(imm3, 8) \cup abcdefgh
    IN  IF bits(imm12, 11, 10) = {}
        THEN Guarded(Bits32Pre(8, 9),
                 LET sel == N(bits(imm12, 8, 9))
                     imm32 ==
                       CASE sel = 0 -> abcdefgh
                         [] sel = 1 -> Shl(abcdefgh, 16) \cup abcdefgh
                         [] sel = 2 -> Shl(abcdefgh, 24) \cup Shl(abcdefgh, 8)
                         [] sel = 3 -> Shl(abcdefgh, 24) \cup Shl(abcdefgh, 16)
                                         \cup Shl(abcdefgh, 8) \cup abcdefgh
                 IN  [NoRet EXCEPT !.val = imm32, !.carry_out = cin])
        ELSE LET unrotated_value == {7} \cup bits(imm12, 6, 0)
                 rot   == N(bits(imm12, 11, 7))
                 imm32 == ror(unrotated_value, 32, rot)
             IN  [NoRet EXCEPT !.val = imm32, !.carry_out = Bit32(imm32, 31),
                               !.n = rot, !.ub = ror_wide(32, rot)]

\* ------------------------------------------------------------------ inputs

\* the 32-bit operands the shift routines are applied to
Values ==
    { {}, {0}, {31}, 0..31, {0, 31}, 0..30, 1..31, W(305419896),
      {1, 3, 5, 7, 9, 11, 13, 15, 17, 19, 21, 23, 25, 27, 29, 31}, 8..23 }

Carries == {0, 1}

Imm5s == 0..31

\* the bits of an instruction word the Thumb expander reads
ThumbFieldBits == {26} \cup (12..14) \cup (0..7)

\* instruction words: every i:imm3:imm8, alone or with every other bit set
ThumbWords ==
    { (IF i = 1 THEN {26} ELSE {}) \cup Shl(W(imm3), 12) \cup W(abcdefgh) \cup rest :
        i \in {0, 1}, imm3 \in 0..7, abcdefgh \in 0..255,
        rest \in {{}, (0..31) \ ThumbFieldBits} }

\* 12-bit fields handed to the ARM expander
ARMFields == {W(f) : f \in 0..4095}

\* ------------------------------------------------------------------ machine

Idle ==
    /\ op = "idle" /\ typeCode = 0 /\ imm5 = 0 /\ shift_t = 0 /\ amount = 0
    /\ value = {} /\ carry_in = 0 /\ ret = NoRet

\* what the undefined shifts of the next call evaluate to
Sites == {NoWide} \cup [shift : WideOutcomes, bit : WideOutcomes]

\* r is the result of a call made under wideShift: an outcome was drawn exactly
\* when the call evaluated a shift by a count outside 0..31
Decided(r) == r.ub <=> wideShift # NoWide

Init ==
    /\ NDEBUG \in BOOLEAN
    /\ wideShift \in Sites
    /\ Idle

\* assert is compiled in or out once, for the whole program
Build == UNCHANGED NDEBUG

\* the call in progress keeps the outcome drawn for it
Site == UNCHANGED wideShift

\* the decoder evaluates no shift; the outcome drawn here is that of the Shift_C
\* the caller may hand the decoded operand to
CallDecodeImmShift ==
    /\ op = "idle"
    /\ Build /\ wideShift' \in Sites
    /\ \E t \in 0..MaxTypeCode, i \in Imm5s :
         /\ typeCode' = t /\ imm5' = i
         /\ ret' = DecodeImmShift(t, i)
         /\ Decided(ret')
    /\ op' = "DecodeImmShift"
    /\ UNCHANGED <<shift_t, amount, value, carry_in>>

CallDecodeImmShift2 ==
    /\ op = "idle"
    /\ Build /\ Site
    /\ \E st \in ARM_ShifterType, i \in Imm5s :
         /\ typeCode' = st /\ imm5' = i
         /\ ret' = DecodeImmShift2(st, i)
         /\ Decided(ret')
    /\ op' = "DecodeImmShift2"
    /\ UNCHANGED <<shift_t, amount, value, carry_in>>

CallDecodeRegShift ==
    /\ op = "idle"
    /\ Build /\ Site
    /\ \E t \in 0..MaxTypeCode :
         /\ typeCode' = t
         /\ ret' = DecodeRegShift(t)
         /\ Decided(ret')
    /\ op' = "DecodeRegShift"
    /\ UNCHANGED <<imm5, shift_t, amount, value, carry_in>>

CallLSL_C ==
    /\ op = "idle"
    /\ Build /\ Site
    /\ \E v \in Values, a \in 0..MaxAmount :
         /\ value' = v /\ amount' = a
         /\ ret' = LSL_C(v, a)
         /\ Decided(ret')
    /\ op' = "LSL_C"
    /\ UNCHANGED <<typeCode, imm5, shift_t, carry_in>>

CallLSR_C ==
    /\ op = "idle"
    /\ Build /\ Site
    /\ \E v \in Values, a \in 0..MaxAmount :
         /\ value' = v /\ amount' = a
         /\ ret' = LSR_C(v, a)
         /\ Decided(ret')
    /\ op' = "LSR_C"
    /\ UNCHANGED <<typeCode, imm5, shift_t, carry_in>>

CallASR_C ==
    /\ op = "idle"
    /\ Build /\ Site
    /\ \E v \in Values, a \in 0..MaxAmount :
         /\ value' = v /\ amount' = a
         /\ ret' = ASR_C(v, a)
         /\ Decided(ret')
    /\ op' = "ASR_C"
    /\ UNCHANGED <<typeCode, imm5, shift_t, carry_in>>

CallROR_C ==
    /\ op = "idle"
    /\ Build /\ Site
    /\ \E v \in Values, a \in 0..MaxAmount :
         /\ value' = v /\ amount' = a
         /\ ret' = ROR_C(v, a)
         /\ Decided(ret')
    /\ op' = "ROR_C"
    /\ UNCHANGED <<typeCode, imm5, shift_t, carry_in>>

CallRRX_C ==
    /\ op = "idle"
    /\ Build /\ Site
    /\ \E v \in Values, c \in Carries :
         /\ value' = v /\ carry_in' = c
         /\ ret' = RRX_C(v, c)
         /\ Decided(ret')
    /\ op' = "RRX_C"
    /\ UNCHANGED <<typeCode, imm5, shift_t, amount>>

CallShift_C ==
    /\ op = "idle"
    /\ Build /\ Site
    /\ \E v \in Values, k \in ARM_ShifterType, a \in 0..MaxAmount, c \in Carries :
         /\ value' = v /\ shift_t' = k /\ amount' = a /\ carry_in' = c
         /\ ret' = Shift_C(v, k, a, c)
         /\ Decided(ret')
    /\ op' = "Shift_C"
    /\ UNCHANGED <<typeCode, imm5>>

\* the caller's sequence: the operand DecodeImmShift returned is handed to Shift_C
ShiftDecoded ==
    /\ op = "DecodeImmShift"
    /\ ~ret.abort
    /\ Build /\ Site
    /\ \E v \in Values, c \in Carries, k \in {ret.kind}, a \in {ret.n} :
         /\ value' = v /\ carry_in' = c /\ shift_t' = k /\ amount' = a
         /\ ret' = Shift_C(v, k, a, c)
         /\ Decided(ret')
    /\ op' = "ShiftDecoded"
    /\ UNCHANGED <<typeCode, imm5>>

CallARMExpandImm_C ==
    /\ op = "idle"
    /\ Build /\ Site
    /\ \E w \in ARMFields, c \in Carries :
         /\ value' = w /\ carry_in' = c
         /\ ret' = ARMExpandImm_C(w, c)
         /\ Decided(ret')
    /\ op' = "ARMExpandImm_C"
    /\ UNCHANGED <<typeCode, imm5, shift_t, amount>>

CallThumbExpandImm_C ==
    /\ op = "idle"
    /\ Build /\ Site
    /\ \E w \in ThumbWords, c \in Carries :
         /\ value' = w /\ carry_in' = c
         /\ ret' = ThumbExpandImm_C(w, c)
         /\ Decided(ret')
    /\ op' = "ThumbExpandImm_C"
    /\ UNCHANGED <<typeCode, imm5, shift_t, amount>>

\* the call returns; nothing persists across calls
Return ==
    /\ op # "idle"
    /\ op' = "idle" /\ typeCode' = 0 /\ imm5' = 0 /\ shift_t' = 0 /\ amount' = 0
    /\ value' = {} /\ carry_in' = 0 /\ ret' = NoRet
    /\ wideShift' \in Sites
    /\ Build

Next ==
    \/ CallDecodeImmShift
    \/ CallDecodeImmShift2
    \/ CallDecodeRegShift
    \/ CallLSL_C
    \/ CallLSR_C
    \/ CallASR_C
    \/ CallROR_C
    \/ CallRRX_C
    \/ CallShift_C
    \/ ShiftDecoded
    \/ CallARMExpandImm_C
    \/ CallThumbExpandImm_C
    \/ Return

Spec == Init /\ [][Next]_vars

\* ------------------------------------------------------------------ properties

\* what the claims are stated with, independent of the code's operators
BitOf(w, b) == IF b \in w THEN 1 ELSE 0

RotateRight(w, n) == {(b + 32 - n) % 32 : b \in w}

ShiftApplied == op \in {"Shift_C", "ShiftDecoded"}

\* the (kind, amount) table of the shift-type decoder
DecodeTable(t, i) ==
    CASE t = 0 -> <<SRType_LSL, i>>
      [] t = 1 -> <<SRType_LSR, IF i = 0 THEN 32 ELSE i>>
      [] t = 2 -> <<SRType_ASR, IF i = 0 THEN 32 ELSE i>>
      [] t = 3 /\ i = 0 -> <<SRType_RRX, 1>>
      [] t = 3 /\ i # 0 -> <<SRType_ROR, i>>

\* C1: for every typeCode in 0..3 and imm5 in 0..31 DecodeImmShift returns
\* exactly the (kind, amount) pair of the table.
C1_DecodeImmShiftTable ==
    (op = "DecodeImmShift" /\ typeCode \in 0..3) =>
        /\ ~ret.abort /\ ~ret.viol
        /\ <<ret.kind, ret.n>> = DecodeTable(typeCode, imm5)

C1_Witness ==
    /\ op = "DecodeImmShift" /\ typeCode = 1 /\ imm5 = 0
    /\ ret.kind = SRType_LSR /\ ret.n = 32

\* C2 (as claimed): Shift_C with kind RRX and amount 1 returns carryIn in bit
\* 31, bits 31..1 of the value in bits 30..0, and carryOut = bit 0 of the value.
C2_RRXUsesCarryIn ==
    (ShiftApplied /\ shift_t = SRType_RRX /\ amount = 1) =>
        /\ ~ret.abort
        /\ BitOf(ret.val, 31) = carry_in
        /\ ret.val \ {31} = {b - 1 : b \in value \ {0}}
        /\ ret.carry_out = BitOf(value, 0)

\* the 12-bit field the Thumb expander assembles from the instruction word
ThumbTop2Zero == 26 \notin value /\ 14 \notin value

ThumbSelector2 == 2 * BitOf(value, 13) + BitOf(value, 12)

ThumbByte == value \cap (0..7)

ThumbPattern ==
    CASE ThumbSelector2 = 0 -> ThumbByte
      [] ThumbSelector2 = 1 -> ThumbByte \cup {b + 16 : b \in ThumbByte}
      [] ThumbSelector2 = 2 -> {b + 8 : b \in ThumbByte} \cup {b + 24 : b \in ThumbByte}
      [] ThumbSelector2 = 3 -> ThumbByte \cup {b + 8 : b \in ThumbByte}
                                 \cup {b + 16 : b \in ThumbByte}
                                 \cup {b + 24 : b \in ThumbByte}

\* C3 (as claimed): when bits 11..10 of the assembled field are 0,
\* ThumbExpandImm_C returns carryOut = carryIn and the byte replicated as bits
\* 9..8 of the field select.
C3_ThumbReplication ==
    (op = "ThumbExpandImm_C" /\ ThumbTop2Zero) =>
        /\ ~ret.abort
        /\ ret.carry_out = carry_in
        /\ ret.val = ThumbPattern

\* C4 (as claimed): a decoder call with a typeCode outside 0..3 fails and
\* returns no shift kind or amount.
C4_InvalidTypeFails ==
    (/\ op \in {"DecodeImmShift", "DecodeImmShift2", "DecodeRegShift"}
     /\ typeCode \notin 0..3) => ret.abort

\* C5 (as claimed): every amount DecodeImmShift returns for typeCode in 0..3 is
\* in 1..32, and is 1 whenever the kind is RRX.
C5_AmountFrom1To32 ==
    (op = "DecodeImmShift" /\ typeCode \in 0..3) =>
        /\ ret.n \in 1..32
        /\ (ret.kind = SRType_RRX => ret.n = 1)

\* C5 (amended): every amount DecodeImmShift returns for typeCode in 0..3 is in
\* 0..32, is 0 only for LSL with imm5 = 0, and is 1 whenever the kind is RRX.
C5_AmountFrom0To32 ==
    (op = "DecodeImmShift" /\ typeCode \in 0..3) =>
        /\ ret.n \in 0..32
        /\ (ret.n = 0 => ret.kind = SRType_LSL /\ imm5 = 0)
        /\ (ret.kind = SRType_RRX => ret.n = 1)

C5_Witness ==
    /\ op = "DecodeImmShift" /\ typeCode = 0 /\ imm5 = 0
    /\ ret.kind = SRType_LSL /\ ret.n = 0

\* C6 (as claimed): Shift_C with amount 0 returns the value and carryIn
\* unchanged and invokes no per-kind routine for LSL, LSR, ASR and ROR; with
\* RRX the call fails as a precondition violation and is not a no-op.
C6_ZeroAmountNoOp ==
    (ShiftApplied /\ amount = 0) =>
        IF shift_t # SRType_RRX
        THEN /\ ~ret.abort /\ ~ret.viol
             /\ ret.val = value /\ ret.carry_out = carry_in
             /\ ret.calls = <<>>
        ELSE ret.viol /\ ret.abort

\* the ARM expander's field: imm = bits 7..0, rotateAmount = 2 * bits 11..8
ARMImm == value \cap (0..7)

ARMRotate == 2 * N({b - 8 : b \in value \cap (8..11)})

\* C7: ARMExpandImm_C returns (imm, carryIn) when rotateAmount = 0 and
\* otherwise imm rotated right by rotateAmount with carryOut = bit 31 of the
\* result; 0x4FF with carryIn = 0 gives (0xFF000000, 1).
C7_ARMExpand ==
    (op = "ARMExpandImm_C") =>
        /\ ~ret.abort /\ ~ret.viol /\ ~ret.ub
        /\ IF ARMRotate = 0
           THEN ret.val = ARMImm /\ ret.carry_out = carry_in
           ELSE /\ ret.val = RotateRight(ARMImm, ARMRotate)
                /\ ret.carry_out = BitOf(RotateRight(ARMImm, ARMRotate), 31)
        /\ (value = W(1279) /\ carry_in = 0 =>
                ret.val = 24..31 /\ ret.carry_out = 1)

C7_Witness ==
    /\ op = "ARMExpandImm_C" /\ value = W(1279) /\ carry_in = 0
    /\ ret.val = 24..31 /\ ret.carry_out = 1

\* bits 11..7 of the assembled Thumb field and 0x80 | bits 6..0
ThumbRotate == 16 * BitOf(value, 26) + 8 * BitOf(value, 14) + 4 * BitOf(value, 13)
                 + 2 * BitOf(value, 12) + BitOf(value, 7)

ThumbUnrotated == {7} \cup (value \cap (0..6))

\* C8: when bits 11..10 of the assembled field are not 0, ThumbExpandImm_C
\* returns 0x80 | bits 6..0 rotated right by bits 11..7, carryOut = bit 31 of
\* the result; the rotate amount is in 8..31 and no shift by 32 is evaluated;
\* the word 0x4000 gives (0x80000000, 1).
C8_ThumbRotation ==
    (op = "ThumbExpandImm_C" /\ ~ThumbTop2Zero) =>
        /\ ~ret.abort /\ ~ret.viol /\ ~ret.ub
        /\ ThumbRotate \in 8..31 /\ ret.n = ThumbRotate
        /\ ret.val = RotateRight(ThumbUnrotated, ThumbRotate)
        /\ ret.carry_out = BitOf(RotateRight(ThumbUnrotated, ThumbRotate), 31)
        /\ (value = {14} => ret.val = {31} /\ ret.carry_out = 1)

C8_Witness ==
    /\ op = "ThumbExpandImm_C" /\ value = {14} /\ carry_in = 0
    /\ ret.val = {31} /\ ret.carry_out = 1

\* C9 (as claimed): for every amount in 1..32 LSR_C and ASR_C return carryOut =
\* bit (amount - 1) of the value; the low bits of the result are bits
\* 31..amount of the value and the top amount bits are zero (LSR_C) or copies
\* of bit 31 of the value (ASR_C).
C9_RightShifts ==
    (op \in {"LSR_C", "ASR_C"} /\ amount \in 1..32) =>
        /\ ~ret.abort
        /\ ret.carry_out = BitOf(value, amount - 1)
        /\ ret.val \cap (0..(31 - amount)) = {b - amount : b \in {x \in value : x >= amount}}
        /\ ret.val \cap ((32 - amount)..31) =
             IF op = "ASR_C" /\ 31 \in value THEN (32 - amount)..31 ELSE {}

\* the amounts each per-kind routine accepts
InContract(call) ==
    CASE call[1] \in {SRType_LSL, SRType_ROR} -> call[2] \in 1..31
      [] call[1] \in {SRType_LSR, SRType_ASR} -> call[2] \in 1..32
      [] call[1] = SRType_RRX                 -> call[2] = 1

\* C10: handing the operand DecodeImmShift returned for typeCode in 0..3 to
\* Shift_C violates no precondition of Shift_C or of the routine it dispatches
\* to, and an LSL amount of 0 dispatches to none.
C10_DecodeThenApply ==
    (op = "ShiftDecoded" /\ typeCode \in 0..3) =>
        /\ ~ret.viol /\ ~ret.abort
        /\ \A k \in 1..Len(ret.calls) : InContract(ret.calls[k])
        /\ (amount = 0 => shift_t = SRType_LSL /\ ret.calls = <<>>)
        /\ (amount # 0 => ret.calls = << <<shift_t, amount>> >>)

C10_Witness ==
    /\ op = "ShiftDecoded" /\ typeCode = 1 /\ imm5 = 0
    /\ shift_t = SRType_LSR /\ amount = 32
    /\ ret.calls = << <<SRType_LSR, 32>> >> /\ ~ret.viol

====
